---- MODULE Spec2Model ----
(***************************************************************************)
(* Model of app.py, the travel planner: one request (the "Plan My Trip"    *)
(* button) runs main() top to bottom, calling the weather service, the     *)
(* text-generation service, the geocoder, the Overpass spatial query and   *)
(* the flights service.                                                     *)
(*                                                                         *)
(* Conventions.  A Python str that the code slices or case-maps is a       *)
(* sequence of characters; a character is a one-character string, or the   *)
(* name of its code point ("U+00DF" is LATIN SMALL LETTER SHARP S).  Other  *)
(* strings are TLA+ strings.  Python's None is the empty tuple and a       *)
(* present optional value v is <<v>>.  A JSON payload is a record that     *)
(* says, for each key the code reads, whether the key is absent, null, or  *)
(* what it holds.  Floats are integers in hundredths.                       *)
(***************************************************************************)
EXTENDS Integers, Sequences, FiniteSets, TLC

VARIABLES
    pc,            \* position of main() / of the function under study
    city,          \* st.text_input("Destination City")
    origin_city,   \* st.text_input("Departure City")
    calls,         \* external calls made so far, in order
    screen,        \* what streamlit has been told to show, in order
    raised,        \* None, or the step whose exception left main()
    weather_data,  \* main: weather_data
    trip_plan,     \* main: trip_plan
    geocode_data,  \* get_city_coordinates: what the geocoder answered
    lat, lon,      \* search_hotels: lat, lon
    overpass_data, \* search_hotels: data (the Overpass payload)
    hotels,        \* search_hotels: hotels / main: hotels
    origin_code,   \* main: origin_code
    dest_code,     \* main: dest_code
    flights_data,  \* search_flights: data (the flights payload)
    flights        \* search_flights: flights / main: flights

vars == <<pc, city, origin_city, calls, screen, raised, weather_data, trip_plan,
          geocode_data, lat, lon, overpass_data, hotels, origin_code, dest_code,
          flights_data, flights>>

----------------------------------------------------------------------------
(* Bounds of the model *)

\* longest city name enumerated letter by letter
MaxNameLen == 3
\* longest Overpass element list studied in search_hotels
MaxElements == 6
\* longest flights data list studied in search_flights
MaxFlights == 4
\* longest element list and data list a whole request is run on
MaxRequestItems == 1

----------------------------------------------------------------------------
(* Python values *)

None == <<>>
Some(v) == <<v>>

Min(a, b) == IF a < b THEN a ELSE b

\* s[:n]
Prefix(s, n) == SubSeq(s, 1, Min(n, Len(s)))

RECURSIVE Flatten(_)
Flatten(ss) == IF ss = <<>> THEN <<>> ELSE Head(ss) \o Flatten(Tail(ss))

\* The characters the model case-maps: printable ASCII, Latin-1 and Latin
\* Extended-A and -B (U+00A0 to U+024F), COMBINING DOT ABOVE, LATIN CAPITAL
\* LETTER SHARP S, KELVIN SIGN and ANGSTROM SIGN.  Every character but the
\* ASCII letters, the digits and the space is named by its code point.
ModelChars ==
    {
     " ", "U+0021", "U+0022", "U+0023", "U+0024", "U+0025", "U+0026", "U+0027", "U+0028", "U+0029",
     "U+002A", "U+002B", "U+002C", "U+002D", "U+002E", "U+002F", "0", "1", "2", "3",
     "4", "5", "6", "7", "8", "9", "U+003A", "U+003B", "U+003C", "U+003D",
     "U+003E", "U+003F", "U+0040", "A", "B", "C", "D", "E", "F", "G",
     "H", "I", "J", "K", "L", "M", "N", "O", "P", "Q",
     "R", "S", "T", "U", "V", "W", "X", "Y", "Z", "U+005B",
     "U+005C", "U+005D", "U+005E", "U+005F", "U+0060", "a", "b", "c", "d", "e",
     "f", "g", "h", "i", "j", "k", "l", "m", "n", "o",
     "p", "q", "r", "s", "t", "u", "v", "w", "x", "y",
     "z", "U+007B", "U+007C", "U+007D", "U+007E", "U+00A0", "U+00A1", "U+00A2", "U+00A3", "U+00A4",
     "U+00A5", "U+00A6", "U+00A7", "U+00A8", "U+00A9", "U+00AA", "U+00AB", "U+00AC", "U+00AD", "U+00AE",
     "U+00AF", "U+00B0", "U+00B1", "U+00B2", "U+00B3", "U+00B4", "U+00B5", "U+00B6", "U+00B7", "U+00B8",
     "U+00B9", "U+00BA", "U+00BB", "U+00BC", "U+00BD", "U+00BE", "U+00BF", "U+00C0", "U+00C1", "U+00C2",
     "U+00C3", "U+00C4", "U+00C5", "U+00C6", "U+00C7", "U+00C8", "U+00C9", "U+00CA", "U+00CB", "U+00CC",
     "U+00CD", "U+00CE", "U+00CF", "U+00D0", "U+00D1", "U+00D2", "U+00D3", "U+00D4", "U+00D5", "U+00D6",
     "U+00D7", "U+00D8", "U+00D9", "U+00DA", "U+00DB", "U+00DC", "U+00DD", "U+00DE", "U+00DF", "U+00E0",
     "U+00E1", "U+00E2", "U+00E3", "U+00E4", "U+00E5", "U+00E6", "U+00E7", "U+00E8", "U+00E9", "U+00EA",
     "U+00EB", "U+00EC", "U+00ED", "U+00EE", "U+00EF", "U+00F0", "U+00F1", "U+00F2", "U+00F3", "U+00F4",
     "U+00F5", "U+00F6", "U+00F7", "U+00F8", "U+00F9", "U+00FA", "U+00FB", "U+00FC", "U+00FD", "U+00FE",
     "U+00FF", "U+0100", "U+0101", "U+0102", "U+0103", "U+0104", "U+0105", "U+0106", "U+0107", "U+0108",
     "U+0109", "U+010A", "U+010B", "U+010C", "U+010D", "U+010E", "U+010F", "U+0110", "U+0111", "U+0112",
     "U+0113", "U+0114", "U+0115", "U+0116", "U+0117", "U+0118", "U+0119", "U+011A", "U+011B", "U+011C",
     "U+011D", "U+011E", "U+011F", "U+0120", "U+0121", "U+0122", "U+0123", "U+0124", "U+0125", "U+0126",
     "U+0127", "U+0128", "U+0129", "U+012A", "U+012B", "U+012C", "U+012D", "U+012E", "U+012F", "U+0130",
     "U+0131", "U+0132", "U+0133", "U+0134", "U+0135", "U+0136", "U+0137", "U+0138", "U+0139", "U+013A",
     "U+013B", "U+013C", "U+013D", "U+013E", "U+013F", "U+0140", "U+0141", "U+0142", "U+0143", "U+0144",
     "U+0145", "U+0146", "U+0147", "U+0148", "U+0149", "U+014A", "U+014B", "U+014C", "U+014D", "U+014E",
     "U+014F", "U+0150", "U+0151", "U+0152", "U+0153", "U+0154", "U+0155", "U+0156", "U+0157", "U+0158",
     "U+0159", "U+015A", "U+015B", "U+015C", "U+015D", "U+015E", "U+015F", "U+0160", "U+0161", "U+0162",
     "U+0163", "U+0164", "U+0165", "U+0166", "U+0167", "U+0168", "U+0169", "U+016A", "U+016B", "U+016C",
     "U+016D", "U+016E", "U+016F", "U+0170", "U+0171", "U+0172", "U+0173", "U+0174", "U+0175", "U+0176",
     "U+0177", "U+0178", "U+0179", "U+017A", "U+017B", "U+017C", "U+017D", "U+017E", "U+017F", "U+0180",
     "U+0181", "U+0182", "U+0183", "U+0184", "U+0185", "U+0186", "U+0187", "U+0188", "U+0189", "U+018A",
     "U+018B", "U+018C", "U+018D", "U+018E", "U+018F", "U+0190", "U+0191", "U+0192", "U+0193", "U+0194",
     "U+0195", "U+0196", "U+0197", "U+0198", "U+0199", "U+019A", "U+019B", "U+019C", "U+019D", "U+019E",
     "U+019F", "U+01A0", "U+01A1", "U+01A2", "U+01A3", "U+01A4", "U+01A5", "U+01A6", "U+01A7", "U+01A8",
     "U+01A9", "U+01AA", "U+01AB", "U+01AC", "U+01AD", "U+01AE", "U+01AF", "U+01B0", "U+01B1", "U+01B2",
     "U+01B3", "U+01B4", "U+01B5", "U+01B6", "U+01B7", "U+01B8", "U+01B9", "U+01BA", "U+01BB", "U+01BC",
     "U+01BD", "U+01BE", "U+01BF", "U+01C0", "U+01C1", "U+01C2", "U+01C3", "U+01C4", "U+01C5", "U+01C6",
     "U+01C7", "U+01C8", "U+01C9", "U+01CA", "U+01CB", "U+01CC", "U+01CD", "U+01CE", "U+01CF", "U+01D0",
     "U+01D1", "U+01D2", "U+01D3", "U+01D4", "U+01D5", "U+01D6", "U+01D7", "U+01D8", "U+01D9", "U+01DA",
     "U+01DB", "U+01DC", "U+01DD", "U+01DE", "U+01DF", "U+01E0", "U+01E1", "U+01E2", "U+01E3", "U+01E4",
     "U+01E5", "U+01E6", "U+01E7", "U+01E8", "U+01E9", "U+01EA", "U+01EB", "U+01EC", "U+01ED", "U+01EE",
     "U+01EF", "U+01F0", "U+01F1", "U+01F2", "U+01F3", "U+01F4", "U+01F5", "U+01F6", "U+01F7", "U+01F8",
     "U+01F9", "U+01FA", "U+01FB", "U+01FC", "U+01FD", "U+01FE", "U+01FF", "U+0200", "U+0201", "U+0202",
     "U+0203", "U+0204", "U+0205", "U+0206", "U+0207", "U+0208", "U+0209", "U+020A", "U+020B", "U+020C",
     "U+020D", "U+020E", "U+020F", "U+0210", "U+0211", "U+0212", "U+0213", "U+0214", "U+0215", "U+0216",
     "U+0217", "U+0218", "U+0219", "U+021A", "U+021B", "U+021C", "U+021D", "U+021E", "U+021F", "U+0220",
     "U+0221", "U+0222", "U+0223", "U+0224", "U+0225", "U+0226", "U+0227", "U+0228", "U+0229", "U+022A",
     "U+022B", "U+022C", "U+022D", "U+022E", "U+022F", "U+0230", "U+0231", "U+0232", "U+0233", "U+0234",
     "U+0235", "U+0236", "U+0237", "U+0238", "U+0239", "U+023A", "U+023B", "U+023C", "U+023D", "U+023E",
     "U+023F", "U+0240", "U+0241", "U+0242", "U+0243", "U+0244", "U+0245", "U+0246", "U+0247", "U+0248",
     "U+0249", "U+024A", "U+024B", "U+024C", "U+024D", "U+024E", "U+024F", "U+0307", "U+1E9E", "U+212A",
     "U+212B"
    }

SharpS == "U+00DF"

\* str.lower(): every character of ModelChars that it changes, with the
\* characters it becomes (LATIN CAPITAL LETTER I WITH DOT ABOVE becomes two)
LowerPairs ==
    {
     <<"A", <<"a">>>>, <<"B", <<"b">>>>, <<"C", <<"c">>>>, <<"D", <<"d">>>>,
     <<"E", <<"e">>>>, <<"F", <<"f">>>>, <<"G", <<"g">>>>, <<"H", <<"h">>>>,
     <<"I", <<"i">>>>, <<"J", <<"j">>>>, <<"K", <<"k">>>>, <<"L", <<"l">>>>,
     <<"M", <<"m">>>>, <<"N", <<"n">>>>, <<"O", <<"o">>>>, <<"P", <<"p">>>>,
     <<"Q", <<"q">>>>, <<"R", <<"r">>>>, <<"S", <<"s">>>>, <<"T", <<"t">>>>,
     <<"U", <<"u">>>>, <<"V", <<"v">>>>, <<"W", <<"w">>>>, <<"X", <<"x">>>>,
     <<"Y", <<"y">>>>, <<"Z", <<"z">>>>, <<"U+00C0", <<"U+00E0">>>>, <<"U+00C1", <<"U+00E1">>>>,
     <<"U+00C2", <<"U+00E2">>>>, <<"U+00C3", <<"U+00E3">>>>, <<"U+00C4", <<"U+00E4">>>>, <<"U+00C5", <<"U+00E5">>>>,
     <<"U+00C6", <<"U+00E6">>>>, <<"U+00C7", <<"U+00E7">>>>, <<"U+00C8", <<"U+00E8">>>>, <<"U+00C9", <<"U+00E9">>>>,
     <<"U+00CA", <<"U+00EA">>>>, <<"U+00CB", <<"U+00EB">>>>, <<"U+00CC", <<"U+00EC">>>>, <<"U+00CD", <<"U+00ED">>>>,
     <<"U+00CE", <<"U+00EE">>>>, <<"U+00CF", <<"U+00EF">>>>, <<"U+00D0", <<"U+00F0">>>>, <<"U+00D1", <<"U+00F1">>>>,
     <<"U+00D2", <<"U+00F2">>>>, <<"U+00D3", <<"U+00F3">>>>, <<"U+00D4", <<"U+00F4">>>>, <<"U+00D5", <<"U+00F5">>>>,
     <<"U+00D6", <<"U+00F6">>>>, <<"U+00D8", <<"U+00F8">>>>, <<"U+00D9", <<"U+00F9">>>>, <<"U+00DA", <<"U+00FA">>>>,
     <<"U+00DB", <<"U+00FB">>>>, <<"U+00DC", <<"U+00FC">>>>, <<"U+00DD", <<"U+00FD">>>>, <<"U+00DE", <<"U+00FE">>>>,
     <<"U+0100", <<"U+0101">>>>, <<"U+0102", <<"U+0103">>>>, <<"U+0104", <<"U+0105">>>>, <<"U+0106", <<"U+0107">>>>,
     <<"U+0108", <<"U+0109">>>>, <<"U+010A", <<"U+010B">>>>, <<"U+010C", <<"U+010D">>>>, <<"U+010E", <<"U+010F">>>>,
     <<"U+0110", <<"U+0111">>>>, <<"U+0112", <<"U+0113">>>>, <<"U+0114", <<"U+0115">>>>, <<"U+0116", <<"U+0117">>>>,
     <<"U+0118", <<"U+0119">>>>, <<"U+011A", <<"U+011B">>>>, <<"U+011C", <<"U+011D">>>>, <<"U+011E", <<"U+011F">>>>,
     <<"U+0120", <<"U+0121">>>>, <<"U+0122", <<"U+0123">>>>, <<"U+0124", <<"U+0125">>>>, <<"U+0126", <<"U+0127">>>>,
     <<"U+0128", <<"U+0129">>>>, <<"U+012A", <<"U+012B">>>>, <<"U+012C", <<"U+012D">>>>, <<"U+012E", <<"U+012F">>>>,
     <<"U+0130", <<"i","U+0307">>>>, <<"U+0132", <<"U+0133">>>>, <<"U+0134", <<"U+0135">>>>, <<"U+0136", <<"U+0137">>>>,
     <<"U+0139", <<"U+013A">>>>, <<"U+013B", <<"U+013C">>>>, <<"U+013D", <<"U+013E">>>>, <<"U+013F", <<"U+0140">>>>,
     <<"U+0141", <<"U+0142">>>>, <<"U+0143", <<"U+0144">>>>, <<"U+0145", <<"U+0146">>>>, <<"U+0147", <<"U+0148">>>>,
     <<"U+014A", <<"U+014B">>>>, <<"U+014C", <<"U+014D">>>>, <<"U+014E", <<"U+014F">>>>, <<"U+0150", <<"U+0151">>>>,
     <<"U+0152", <<"U+0153">>>>, <<"U+0154", <<"U+0155">>>>, <<"U+0156", <<"U+0157">>>>, <<"U+0158", <<"U+0159">>>>,
     <<"U+015A", <<"U+015B">>>>, <<"U+015C", <<"U+015D">>>>, <<"U+015E", <<"U+015F">>>>, <<"U+0160", <<"U+0161">>>>,
     <<"U+0162", <<"U+0163">>>>, <<"U+0164", <<"U+0165">>>>, <<"U+0166", <<"U+0167">>>>, <<"U+0168", <<"U+0169">>>>,
     <<"U+016A", <<"U+016B">>>>, <<"U+016C", <<"U+016D">>>>, <<"U+016E", <<"U+016F">>>>, <<"U+0170", <<"U+0171">>>>,
     <<"U+0172", <<"U+0173">>>>, <<"U+0174", <<"U+0175">>>>, <<"U+0176", <<"U+0177">>>>, <<"U+0178", <<"U+00FF">>>>,
     <<"U+0179", <<"U+017A">>>>, <<"U+017B", <<"U+017C">>>>, <<"U+017D", <<"U+017E">>>>, <<"U+0181", <<"U+0253">>>>,
     <<"U+0182", <<"U+0183">>>>, <<"U+0184", <<"U+0185">>>>, <<"U+0186", <<"U+0254">>>>, <<"U+0187", <<"U+0188">>>>,
     <<"U+0189", <<"U+0256">>>>, <<"U+018A", <<"U+0257">>>>, <<"U+018B", <<"U+018C">>>>, <<"U+018E", <<"U+01DD">>>>,
     <<"U+018F", <<"U+0259">>>>, <<"U+0190", <<"U+025B">>>>, <<"U+0191", <<"U+0192">>>>, <<"U+0193", <<"U+0260">>>>,
     <<"U+0194", <<"U+0263">>>>, <<"U+0196", <<"U+0269">>>>, <<"U+0197", <<"U+0268">>>>, <<"U+0198", <<"U+0199">>>>,
     <<"U+019C", <<"U+026F">>>>, <<"U+019D", <<"U+0272">>>>, <<"U+019F", <<"U+0275">>>>, <<"U+01A0", <<"U+01A1">>>>,
     <<"U+01A2", <<"U+01A3">>>>, <<"U+01A4", <<"U+01A5">>>>, <<"U+01A6", <<"U+0280">>>>, <<"U+01A7", <<"U+01A8">>>>,
     <<"U+01A9", <<"U+0283">>>>, <<"U+01AC", <<"U+01AD">>>>, <<"U+01AE", <<"U+0288">>>>, <<"U+01AF", <<"U+01B0">>>>,
     <<"U+01B1", <<"U+028A">>>>, <<"U+01B2", <<"U+028B">>>>, <<"U+01B3", <<"U+01B4">>>>, <<"U+01B5", <<"U+01B6">>>>,
     <<"U+01B7", <<"U+0292">>>>, <<"U+01B8", <<"U+01B9">>>>, <<"U+01BC", <<"U+01BD">>>>, <<"U+01C4", <<"U+01C6">>>>,
     <<"U+01C5", <<"U+01C6">>>>, <<"U+01C7", <<"U+01C9">>>>, <<"U+01C8", <<"U+01C9">>>>, <<"U+01CA", <<"U+01CC">>>>,
     <<"U+01CB", <<"U+01CC">>>>, <<"U+01CD", <<"U+01CE">>>>, <<"U+01CF", <<"U+01D0">>>>, <<"U+01D1", <<"U+01D2">>>>,
     <<"U+01D3", <<"U+01D4">>>>, <<"U+01D5", <<"U+01D6">>>>, <<"U+01D7", <<"U+01D8">>>>, <<"U+01D9", <<"U+01DA">>>>,
     <<"U+01DB", <<"U+01DC">>>>, <<"U+01DE", <<"U+01DF">>>>, <<"U+01E0", <<"U+01E1">>>>, <<"U+01E2", <<"U+01E3">>>>,
     <<"U+01E4", <<"U+01E5">>>>, <<"U+01E6", <<"U+01E7">>>>, <<"U+01E8", <<"U+01E9">>>>, <<"U+01EA", <<"U+01EB">>>>,
     <<"U+01EC", <<"U+01ED">>>>, <<"U+01EE", <<"U+01EF">>>>, <<"U+01F1", <<"U+01F3">>>>, <<"U+01F2", <<"U+01F3">>>>,
     <<"U+01F4", <<"U+01F5">>>>, <<"U+01F6", <<"U+0195">>>>, <<"U+01F7", <<"U+01BF">>>>, <<"U+01F8", <<"U+01F9">>>>,
     <<"U+01FA", <<"U+01FB">>>>, <<"U+01FC", <<"U+01FD">>>>, <<"U+01FE", <<"U+01FF">>>>, <<"U+0200", <<"U+0201">>>>,
     <<"U+0202", <<"U+0203">>>>, <<"U+0204", <<"U+0205">>>>, <<"U+0206", <<"U+0207">>>>, <<"U+0208", <<"U+0209">>>>,
     <<"U+020A", <<"U+020B">>>>, <<"U+020C", <<"U+020D">>>>, <<"U+020E", <<"U+020F">>>>, <<"U+0210", <<"U+0211">>>>,
     <<"U+0212", <<"U+0213">>>>, <<"U+0214", <<"U+0215">>>>, <<"U+0216", <<"U+0217">>>>, <<"U+0218", <<"U+0219">>>>,
     <<"U+021A", <<"U+021B">>>>, <<"U+021C", <<"U+021D">>>>, <<"U+021E", <<"U+021F">>>>, <<"U+0220", <<"U+019E">>>>,
     <<"U+0222", <<"U+0223">>>>, <<"U+0224", <<"U+0225">>>>, <<"U+0226", <<"U+0227">>>>, <<"U+0228", <<"U+0229">>>>,
     <<"U+022A", <<"U+022B">>>>, <<"U+022C", <<"U+022D">>>>, <<"U+022E", <<"U+022F">>>>, <<"U+0230", <<"U+0231">>>>,
     <<"U+0232", <<"U+0233">>>>, <<"U+023A", <<"U+2C65">>>>, <<"U+023B", <<"U+023C">>>>, <<"U+023D", <<"U+019A">>>>,
     <<"U+023E", <<"U+2C66">>>>, <<"U+0241", <<"U+0242">>>>, <<"U+0243", <<"U+0180">>>>, <<"U+0244", <<"U+0289">>>>,
     <<"U+0245", <<"U+028C">>>>, <<"U+0246", <<"U+0247">>>>, <<"U+0248", <<"U+0249">>>>, <<"U+024A", <<"U+024B">>>>,
     <<"U+024C", <<"U+024D">>>>, <<"U+024E", <<"U+024F">>>>, <<"U+1E9E", <<"U+00DF">>>>, <<"U+212A", <<"k">>>>,
     <<"U+212B", <<"U+00E5">>>>
    }

\* str.upper(): every character of ModelChars that it changes, with the
\* characters it becomes (the sharp s becomes "SS")
UpperPairs ==
    {
     <<"a", <<"A">>>>, <<"b", <<"B">>>>, <<"c", <<"C">>>>, <<"d", <<"D">>>>,
     <<"e", <<"E">>>>, <<"f", <<"F">>>>, <<"g", <<"G">>>>, <<"h", <<"H">>>>,
     <<"i", <<"I">>>>, <<"j", <<"J">>>>, <<"k", <<"K">>>>, <<"l", <<"L">>>>,
     <<"m", <<"M">>>>, <<"n", <<"N">>>>, <<"o", <<"O">>>>, <<"p", <<"P">>>>,
     <<"q", <<"Q">>>>, <<"r", <<"R">>>>, <<"s", <<"S">>>>, <<"t", <<"T">>>>,
     <<"u", <<"U">>>>, <<"v", <<"V">>>>, <<"w", <<"W">>>>, <<"x", <<"X">>>>,
     <<"y", <<"Y">>>>, <<"z", <<"Z">>>>, <<"U+00B5", <<"U+039C">>>>, <<"U+00DF", <<"S","S">>>>,
     <<"U+00E0", <<"U+00C0">>>>, <<"U+00E1", <<"U+00C1">>>>, <<"U+00E2", <<"U+00C2">>>>, <<"U+00E3", <<"U+00C3">>>>,
     <<"U+00E4", <<"U+00C4">>>>, <<"U+00E5", <<"U+00C5">>>>, <<"U+00E6", <<"U+00C6">>>>, <<"U+00E7", <<"U+00C7">>>>,
     <<"U+00E8", <<"U+00C8">>>>, <<"U+00E9", <<"U+00C9">>>>, <<"U+00EA", <<"U+00CA">>>>, <<"U+00EB", <<"U+00CB">>>>,
     <<"U+00EC", <<"U+00CC">>>>, <<"U+00ED", <<"U+00CD">>>>, <<"U+00EE", <<"U+00CE">>>>, <<"U+00EF", <<"U+00CF">>>>,
     <<"U+00F0", <<"U+00D0">>>>, <<"U+00F1", <<"U+00D1">>>>, <<"U+00F2", <<"U+00D2">>>>, <<"U+00F3", <<"U+00D3">>>>,
     <<"U+00F4", <<"U+00D4">>>>, <<"U+00F5", <<"U+00D5">>>>, <<"U+00F6", <<"U+00D6">>>>, <<"U+00F8", <<"U+00D8">>>>,
     <<"U+00F9", <<"U+00D9">>>>, <<"U+00FA", <<"U+00DA">>>>, <<"U+00FB", <<"U+00DB">>>>, <<"U+00FC", <<"U+00DC">>>>,
     <<"U+00FD", <<"U+00DD">>>>, <<"U+00FE", <<"U+00DE">>>>, <<"U+00FF", <<"U+0178">>>>, <<"U+0101", <<"U+0100">>>>,
     <<"U+0103", <<"U+0102">>>>, <<"U+0105", <<"U+0104">>>>, <<"U+0107", <<"U+0106">>>>, <<"U+0109", <<"U+0108">>>>,
     <<"U+010B", <<"U+010A">>>>, <<"U+010D", <<"U+010C">>>>, <<"U+010F", <<"U+010E">>>>, <<"U+0111", <<"U+0110">>>>,
     <<"U+0113", <<"U+0112">>>>, <<"U+0115", <<"U+0114">>>>, <<"U+0117", <<"U+0116">>>>, <<"U+0119", <<"U+0118">>>>,
     <<"U+011B", <<"U+011A">>>>, <<"U+011D", <<"U+011C">>>>, <<"U+011F", <<"U+011E">>>>, <<"U+0121", <<"U+0120">>>>,
     <<"U+0123", <<"U+0122">>>>, <<"U+0125", <<"U+0124">>>>, <<"U+0127", <<"U+0126">>>>, <<"U+0129", <<"U+0128">>>>,
     <<"U+012B", <<"U+012A">>>>, <<"U+012D", <<"U+012C">>>>, <<"U+012F", <<"U+012E">>>>, <<"U+0131", <<"I">>>>,
     <<"U+0133", <<"U+0132">>>>, <<"U+0135", <<"U+0134">>>>, <<"U+0137", <<"U+0136">>>>, <<"U+013A", <<"U+0139">>>>,
     <<"U+013C", <<"U+013B">>>>, <<"U+013E", <<"U+013D">>>>, <<"U+0140", <<"U+013F">>>>, <<"U+0142", <<"U+0141">>>>,
     <<"U+0144", <<"U+0143">>>>, <<"U+0146", <<"U+0145">>>>, <<"U+0148", <<"U+0147">>>>, <<"U+0149", <<"U+02BC","N">>>>,
     <<"U+014B", <<"U+014A">>>>, <<"U+014D", <<"U+014C">>>>, <<"U+014F", <<"U+014E">>>>, <<"U+0151", <<"U+0150">>>>,
     <<"U+0153", <<"U+0152">>>>, <<"U+0155", <<"U+0154">>>>, <<"U+0157", <<"U+0156">>>>, <<"U+0159", <<"U+0158">>>>,
     <<"U+015B", <<"U+015A">>>>, <<"U+015D", <<"U+015C">>>>, <<"U+015F", <<"U+015E">>>>, <<"U+0161", <<"U+0160">>>>,
     <<"U+0163", <<"U+0162">>>>, <<"U+0165", <<"U+0164">>>>, <<"U+0167", <<"U+0166">>>>, <<"U+0169", <<"U+0168">>>>,
     <<"U+016B", <<"U+016A">>>>, <<"U+016D", <<"U+016C">>>>, <<"U+016F", <<"U+016E">>>>, <<"U+0171", <<"U+0170">>>>,
     <<"U+0173", <<"U+0172">>>>, <<"U+0175", <<"U+0174">>>>, <<"U+0177", <<"U+0176">>>>, <<"U+017A", <<"U+0179">>>>,
     <<"U+017C", <<"U+017B">>>>, <<"U+017E", <<"U+017D">>>>, <<"U+017F", <<"S">>>>, <<"U+0180", <<"U+0243">>>>,
     <<"U+0183", <<"U+0182">>>>, <<"U+0185", <<"U+0184">>>>, <<"U+0188", <<"U+0187">>>>, <<"U+018C", <<"U+018B">>>>,
     <<"U+0192", <<"U+0191">>>>, <<"U+0195", <<"U+01F6">>>>, <<"U+0199", <<"U+0198">>>>, <<"U+019A", <<"U+023D">>>>,
     <<"U+019E", <<"U+0220">>>>, <<"U+01A1", <<"U+01A0">>>>, <<"U+01A3", <<"U+01A2">>>>, <<"U+01A5", <<"U+01A4">>>>,
     <<"U+01A8", <<"U+01A7">>>>, <<"U+01AD", <<"U+01AC">>>>, <<"U+01B0", <<"U+01AF">>>>, <<"U+01B4", <<"U+01B3">>>>,
     <<"U+01B6", <<"U+01B5">>>>, <<"U+01B9", <<"U+01B8">>>>, <<"U+01BD", <<"U+01BC">>>>, <<"U+01BF", <<"U+01F7">>>>,
     <<"U+01C5", <<"U+01C4">>>>, <<"U+01C6", <<"U+01C4">>>>, <<"U+01C8", <<"U+01C7">>>>, <<"U+01C9", <<"U+01C7">>>>,
     <<"U+01CB", <<"U+01CA">>>>, <<"U+01CC", <<"U+01CA">>>>, <<"U+01CE", <<"U+01CD">>>>, <<"U+01D0", <<"U+01CF">>>>,
     <<"U+01D2", <<"U+01D1">>>>, <<"U+01D4", <<"U+01D3">>>>, <<"U+01D6", <<"U+01D5">>>>, <<"U+01D8", <<"U+01D7">>>>,
     <<"U+01DA", <<"U+01D9">>>>, <<"U+01DC", <<"U+01DB">>>>, <<"U+01DD", <<"U+018E">>>>, <<"U+01DF", <<"U+01DE">>>>,
     <<"U+01E1", <<"U+01E0">>>>, <<"U+01E3", <<"U+01E2">>>>, <<"U+01E5", <<"U+01E4">>>>, <<"U+01E7", <<"U+01E6">>>>,
     <<"U+01E9", <<"U+01E8">>>>, <<"U+01EB", <<"U+01EA">>>>, <<"U+01ED", <<"U+01EC">>>>, <<"U+01EF", <<"U+01EE">>>>,
     <<"U+01F0", <<"J","U+030C">>>>, <<"U+01F2", <<"U+01F1">>>>, <<"U+01F3", <<"U+01F1">>>>, <<"U+01F5", <<"U+01F4">>>>,
     <<"U+01F9", <<"U+01F8">>>>, <<"U+01FB", <<"U+01FA">>>>, <<"U+01FD", <<"U+01FC">>>>, <<"U+01FF", <<"U+01FE">>>>,
     <<"U+0201", <<"U+0200">>>>, <<"U+0203", <<"U+0202">>>>, <<"U+0205", <<"U+0204">>>>, <<"U+0207", <<"U+0206">>>>,
     <<"U+0209", <<"U+0208">>>>, <<"U+020B", <<"U+020A">>>>, <<"U+020D", <<"U+020C">>>>, <<"U+020F", <<"U+020E">>>>,
     <<"U+0211", <<"U+0210">>>>, <<"U+0213", <<"U+0212">>>>, <<"U+0215", <<"U+0214">>>>, <<"U+0217", <<"U+0216">>>>,
     <<"U+0219", <<"U+0218">>>>, <<"U+021B", <<"U+021A">>>>, <<"U+021D", <<"U+021C">>>>, <<"U+021F", <<"U+021E">>>>,
     <<"U+0223", <<"U+0222">>>>, <<"U+0225", <<"U+0224">>>>, <<"U+0227", <<"U+0226">>>>, <<"U+0229", <<"U+0228">>>>,
     <<"U+022B", <<"U+022A">>>>, <<"U+022D", <<"U+022C">>>>, <<"U+022F", <<"U+022E">>>>, <<"U+0231", <<"U+0230">>>>,
     <<"U+0233", <<"U+0232">>>>, <<"U+023C", <<"U+023B">>>>, <<"U+023F", <<"U+2C7E">>>>, <<"U+0240", <<"U+2C7F">>>>,
     <<"U+0242", <<"U+0241">>>>, <<"U+0247", <<"U+0246">>>>, <<"U+0249", <<"U+0248">>>>, <<"U+024B", <<"U+024A">>>>,
     <<"U+024D", <<"U+024C">>>>, <<"U+024F", <<"U+024E">>>>
    }

LowerMap ==
    [c \in {p[1] : p \in LowerPairs} |-> (CHOOSE p \in LowerPairs : p[1] = c)[2]]
UpperMap ==
    [c \in {p[1] : p \in UpperPairs} |-> (CHOOSE p \in UpperPairs : p[1] = c)[2]]

\* a character of ModelChars that the mapping leaves as it is; the mapping of
\* any other character is not modelled and has no value here
Unchanged(c) == <<CHOOSE d \in ModelChars : d = c>>

\* str.lower() of one character: the characters it becomes
LowerChar(c) == IF c \in DOMAIN LowerMap THEN LowerMap[c] ELSE Unchanged(c)

\* str.upper() of one character: the characters it becomes
UpperChar(c) == IF c \in DOMAIN UpperMap THEN UpperMap[c] ELSE Unchanged(c)

\* str.lower()
Lower(s) == Flatten([i \in 1..Len(s) |-> LowerChar(s[i])])
\* str.upper()
Upper(s) == Flatten([i \in 1..Len(s) |-> UpperChar(s[i])])

----------------------------------------------------------------------------
(* get_airport_code *)

Tokyo == <<"T","o","k","y","o">>
London == <<"L","o","n","d","o","n">>
Lagos == <<"L","a","g","o","s">>

airport_codes ==
    (<<"t","o","k","y","o">> :> <<"H","N","D">>) @@
    (<<"o","s","a","k","a">> :> <<"K","I","X">>) @@
    (<<"k","y","o","t","o">> :> <<"K","I","X">>) @@
    (<<"d","e","l","h","i">> :> <<"D","E","L">>) @@
    (<<"m","u","m","b","a","i">> :> <<"B","O","M">>) @@
    (<<"u","d","a","i","p","u","r">> :> <<"U","D","R">>) @@
    (<<"l","o","n","d","o","n">> :> <<"L","H","R">>) @@
    (<<"p","a","r","i","s">> :> <<"C","D","G">>) @@
    (<<"n","e","w"," ","y","o","r","k">> :> <<"J","F","K">>) @@
    (<<"s","i","n","g","a","p","o","r","e">> :> <<"S","I","N">>) @@
    (<<"b","a","n","g","k","o","k">> :> <<"B","K","K">>)

\* the fallback of the lookup: city[:3].upper()
AirportFallbackLen == 3

\* a plausible slip: the table is consulted with the name as typed
LookupKeyAsTyped(name) == name

AirportFallback(name) == Upper(Prefix(name, AirportFallbackLen))
AirportLookupKey(name) == Lower(name)

get_airport_code(name) ==
    IF AirportLookupKey(name) \in DOMAIN airport_codes
    THEN airport_codes[AirportLookupKey(name)]
    ELSE AirportFallback(name)

----------------------------------------------------------------------------
(* What the services can answer *)

\* requests.get raising, raise_for_status() raising, response.json() raising
ErrorKinds == {"network_error", "http_error", "invalid_json"}

IsError(o) == o.kind \in ErrorKinds

\* calls and screen entries
Call(svc, args, ok) == [svc |-> svc, args |-> args, ok |-> ok]
Subheader(section) == [kind |-> "subheader", section |-> section, data |-> None]
Write(section, data) == [kind |-> "write", section |-> section, data |-> data]
ErrorNotice(section) == [kind |-> "error", section |-> section, data |-> None]
Warning(section) == [kind |-> "warning", section |-> section, data |-> None]

Called(svc) == \E i \in 1..Len(calls) : calls[i].svc = svc
Shown(kind, section) ==
    \E i \in 1..Len(screen) : screen[i].kind = kind /\ screen[i].section = section

----------------------------------------------------------------------------
(* get_weather_data and the weather step of main *)

\* "main" of the payload: key absent, null, an object without "temp", or with it
MainStates == {"absent", "null", "no_temp", "temp"}
\* "weather" of the payload: key absent, null, [], [{}], [{"description": ..}]
WeatherStates == {"absent", "null", "empty_list", "no_desc", "desc"}

WeatherDict(m, w, other) ==
    [kind |-> "json", shape |-> "dict", main |-> m, weather |-> w, other |-> other]

\* {}
EmptyDict == WeatherDict("absent", "absent", FALSE)
\* JSON null, and a non-empty JSON list
NullPayload == [EmptyDict EXCEPT !.shape = "null"]
ListPayload == [EmptyDict EXCEPT !.shape = "list"]

WeatherFailure(k) == [EmptyDict EXCEPT !.kind = k]

WeatherOutcomes ==
    {WeatherFailure(k) : k \in ErrorKinds}
    \cup {WeatherDict(m, w, o) : m \in MainStates, w \in WeatherStates, o \in BOOLEAN}
    \cup {NullPayload, ListPayload}

\* what get_weather_data returns: response.json(), or {} from the except branch
get_weather_data(o) == IF IsError(o) THEN EmptyDict ELSE o

\* if weather_data:
Truthy(d) ==
    \/ d.shape = "list"
    \/ d.shape = "dict" /\ (d.main # "absent" \/ d.weather # "absent" \/ d.other)

DescValue == "clear sky"

\* weather_data.get("main", {}).get("temp") raises
TempRaises(d) == d.shape # "dict" \/ d.main = "null"
\* weather_data.get("weather", [{}])[0].get("description") raises
DescRaises(d) == d.shape # "dict" \/ d.weather \in {"null", "empty_list"}

Temp(d) == IF d.main = "temp" THEN Some(2150) ELSE None
Desc(d) == IF d.weather = "desc" THEN Some(DescValue) ELSE None

GetWeatherData ==
    /\ pc = "weather"
    /\ \E o \in WeatherOutcomes :
        /\ calls' = Append(calls, Call("weather", <<city>>, ~IsError(o)))
        /\ weather_data' = get_weather_data(o)
        /\ screen' = IF IsError(o) THEN Append(screen, ErrorNotice("weather"))
                     ELSE screen
    /\ pc' = "render_weather"
    /\ UNCHANGED <<city, origin_city, raised, trip_plan, geocode_data, lat, lon,
                   overpass_data, hotels, origin_code, dest_code, flights_data,
                   flights>>

RenderWeather ==
    /\ pc = "render_weather"
    /\ IF ~Truthy(weather_data)
       THEN /\ pc' = "narrative"
            /\ UNCHANGED <<screen, raised>>
       ELSE IF TempRaises(weather_data) \/ DescRaises(weather_data)
       THEN /\ screen' = Append(screen, Subheader("weather"))
            /\ raised' = Some("weather")
            /\ pc' = "raised"
       ELSE /\ screen' = screen \o <<Subheader("weather"),
                                     Write("weather", <<"temp", Temp(weather_data)>>),
                                     Write("weather", <<"desc", Desc(weather_data)>>)>>
            /\ pc' = "narrative"
            /\ UNCHANGED raised
    /\ UNCHANGED <<city, origin_city, calls, weather_data, trip_plan, geocode_data,
                   lat, lon, overpass_data, hotels, origin_code, dest_code,
                   flights_data, flights>>

----------------------------------------------------------------------------
(* generate_trip_plan and its step of main.  The days and the month only   *)
(* enter the prompt; the service's answer is the model's input.            *)

PlanText == "plan"

NarrativeOutcomes == {[kind |-> "ok", text |-> PlanText],
                      [kind |-> "error", text |-> ""]}

\* a plausible slip: the call wrapped in try/except like the other fetchers
NarrativeErrorSwallowed(o) == FALSE

\* llm.invoke is called outside any try: its exception leaves main()
NarrativeErrorPropagates(o) == o.kind = "error"

GenerateTripPlan ==
    /\ pc = "narrative"
    /\ \E o \in NarrativeOutcomes :
        /\ calls' = Append(calls, Call("narrative", <<city>>, o.kind = "ok"))
        /\ IF NarrativeErrorPropagates(o)
           THEN /\ raised' = Some("narrative")
                /\ pc' = "raised"
                /\ UNCHANGED <<trip_plan, screen>>
           ELSE /\ trip_plan' = Some(o.text)
                /\ screen' = screen \o <<Subheader("plan"), Write("plan", o.text)>>
                /\ pc' = "hotel_subheader"
                /\ UNCHANGED raised
    /\ UNCHANGED <<city, origin_city, weather_data, geocode_data, lat, lon,
                   overpass_data, hotels, origin_code, dest_code, flights_data,
                   flights>>

----------------------------------------------------------------------------
(* get_city_coordinates *)

\* float(text): the texts the geocoder is modelled to send, "abc" is no number
FloatTexts == ("35.68" :> 3568) @@ ("139.69" :> 13969)
IsFloatText(t) == t \in DOMAIN FloatTexts

GeoJson(data) == [kind |-> "json", data |-> data]
GeoFailure(k) == [kind |-> k, data |-> <<>>]

\* the JSON array holds at most one match (limit=1); a match may lack "lat"
\* or "lon" or hold a text that is no number
GeoMatches == [lat : {None, Some("35.68"), Some("abc")},
               lon : {None, Some("139.69"), Some("abc")}]

GeoOutcomes ==
    {GeoFailure(k) : k \in ErrorKinds}
    \cup {GeoJson(<<>>)}
    \cup {GeoJson(<<m>>) : m \in GeoMatches}

\* float(data[0]["lat"]), float(data[0]["lon"]) raises KeyError or ValueError
MatchRaises(m) ==
    \/ m.lat = None \/ m.lon = None
    \/ ~IsFloatText(m.lat[1]) \/ ~IsFloatText(m.lon[1])

\* [lat, lon, error]: the pair returned and whether st.error was called
get_city_coordinates(o) ==
    IF IsError(o) THEN [lat |-> None, lon |-> None, error |-> TRUE]
    ELSE IF o.data = <<>> THEN [lat |-> None, lon |-> None, error |-> FALSE]
    ELSE IF MatchRaises(o.data[1]) THEN [lat |-> None, lon |-> None, error |-> TRUE]
    ELSE [lat |-> Some(FloatTexts[o.data[1].lat[1]]),
          lon |-> Some(FloatTexts[o.data[1].lon[1]]),
          error |-> FALSE]

----------------------------------------------------------------------------
(* search_hotels *)

HotelCandidateLimit == 5
HotelLimit == 3

TagKeys == {"name", "addr:street", "addr:city", "addr:country", "stars", "phone",
            "website"}

Shibuya == <<"S","h","i","b","u","y","a">>

\* the value a tag has when the element carries it
TagValue ==
    ("name" :> "Grand Hotel") @@ ("addr:street" :> "Main Street") @@
    ("addr:city" :> Shibuya) @@ ("addr:country" :> "JP") @@ ("stars" :> "4") @@
    ("phone" :> "+81 3 0000") @@ ("website" :> "https://grand.example")

\* "tags" of an element: key absent, null, or an object with some of the keys
Tags(kind, keys) == [kind |-> kind, keys |-> keys]

\* an element of the response; a node carries "lat" and "lon", here its place
\* in the response, a way or a relation carries none
Element(type, tags, i) ==
    [type |-> type, tags |-> tags,
     lat |-> IF type = "node" THEN Some(i) ELSE None,
     lon |-> IF type = "node" THEN Some(100 + i) ELSE None]

\* the kinds of element the responses are built from
ElementShapes ==
    {[type |-> "node", tags |-> Tags("dict", {"name", "addr:city", "stars"})],
     [type |-> "node", tags |-> Tags("absent", {})],
     [type |-> "node", tags |-> Tags("null", {})],
     [type |-> "way", tags |-> Tags("dict", TagKeys)],
     [type |-> "relation", tags |-> Tags("absent", {})]}

\* the response whose i-th element has the i-th of shapes
ElementsOf(shapes) ==
    [i \in 1..Len(shapes) |-> Element(shapes[i].type, shapes[i].tags, i)]

OverpassJson(elements) == [kind |-> "json", shape |-> "dict", elements |-> elements]
OverpassFailure(k) == [kind |-> k, shape |-> "dict", elements |-> None]
\* a payload that is no JSON object
OverpassList == [kind |-> "json", shape |-> "list", elements |-> None]

\* the answers without an element list; elements |-> None is a JSON object
\* without the key "elements"
OverpassPlainOutcomes ==
    {OverpassFailure(k) : k \in ErrorKinds} \cup {OverpassList, OverpassJson(None)}

\* tags.get(key, default)
TagsGet(tags, key, default) == IF key \in tags.keys THEN TagValue[key] ELSE default

\* the dict built at lines 100-114
HotelOf(element, cityName) ==
    [name |-> TagsGet(element.tags, "name", "Unnamed Hotel"),
     street |-> TagsGet(element.tags, "addr:street", "Street not available"),
     city |-> TagsGet(element.tags, "addr:city", cityName),
     country |-> TagsGet(element.tags, "addr:country", "Country not available"),
     stars |-> TagsGet(element.tags, "stars", "N/A"),
     phone |-> TagsGet(element.tags, "phone", "Phone not available"),
     website |-> TagsGet(element.tags, "website", "Website not available"),
     lat |-> element.lat,
     lon |-> element.lon]

\* plausible slips: no slice of the element list; the loop left one record late
CandidatesUnsliced(elements) == elements
HotelsFullOneLate(acc) == Len(acc) > HotelLimit

\* data.get("elements", [])[:5]
Candidates(elements) == Prefix(elements, HotelCandidateLimit)
\* element.get("type") == "node"
IsPointElement(element) == element.type = "node"
\* len(hotels) >= 3
HotelsFull(acc) == Len(acc) >= HotelLimit

\* the for loop of lines 97-118 from candidate i on, acc the hotels built so
\* far; tags.get on a null "tags" raises and the except branch returns []
RECURSIVE BuildHotels(_, _, _, _)
BuildHotels(cands, i, acc, cityName) ==
    IF i > Len(cands) THEN [hotels |-> acc, error |-> FALSE]
    ELSE IF ~IsPointElement(cands[i]) THEN BuildHotels(cands, i + 1, acc, cityName)
    ELSE IF cands[i].tags.kind = "null" THEN [hotels |-> <<>>, error |-> TRUE]
    ELSE IF HotelsFull(Append(acc, HotelOf(cands[i], cityName)))
         THEN [hotels |-> Append(acc, HotelOf(cands[i], cityName)), error |-> FALSE]
    ELSE BuildHotels(cands, i + 1, Append(acc, HotelOf(cands[i], cityName)), cityName)

\* the try block of search_hotels on the answer o: [hotels, error]
HotelsFrom(o, cityName) ==
    IF IsError(o) \/ o.shape # "dict" THEN [hotels |-> <<>>, error |-> TRUE]
    ELSE IF o.elements = None THEN [hotels |-> <<>>, error |-> FALSE]
    ELSE BuildHotels(Candidates(o.elements[1]), 1, <<>>, cityName)

\* a plausible slip: the early return of line 72 left out
NoCoordinatesIgnored(la, lo) == FALSE

\* if lat is None or lon is None
NoCoordinates(la, lo) == la = None \/ lo = None

HotelSubheader ==
    /\ pc = "hotel_subheader"
    /\ screen' = Append(screen, Subheader("hotels"))
    /\ pc' = "geocode"
    /\ UNCHANGED <<city, origin_city, calls, raised, weather_data, trip_plan,
                   geocode_data, lat, lon, overpass_data, hotels, origin_code,
                   dest_code, flights_data, flights>>

\* search_hotels up to the early return of line 72
GetCityCoordinates ==
    /\ pc = "geocode"
    /\ \E o \in GeoOutcomes :
        LET r == get_city_coordinates(o) IN
        /\ geocode_data' = o
        /\ calls' = Append(calls, Call("geocode", <<city>>, ~r.error))
        /\ screen' = IF r.error THEN Append(screen, ErrorNotice("geocode"))
                     ELSE screen
        /\ lat' = r.lat
        /\ lon' = r.lon
        /\ IF NoCoordinates(r.lat, r.lon)
           THEN hotels' = <<>> /\ pc' = "render_hotels"
           ELSE hotels' = hotels /\ pc' = "overpass"
    /\ UNCHANGED <<city, origin_city, raised, weather_data, trip_plan,
                   overpass_data, origin_code, dest_code, flights_data, flights>>

\* the rest of search_hotels on the answer o of the spatial query
OverpassAnswer(o) ==
    LET r == HotelsFrom(o, city) IN
    /\ overpass_data' = o
    /\ calls' = Append(calls, Call("overpass", <<lat, lon>>, ~r.error))
    /\ screen' = IF r.error THEN Append(screen, ErrorNotice("hotels")) ELSE screen
    /\ hotels' = r.hotels
    /\ pc' = "render_hotels"
    /\ UNCHANGED <<city, origin_city, raised, weather_data, trip_plan,
                   geocode_data, lat, lon, origin_code, dest_code, flights_data,
                   flights>>

\* the spatial query answers with a failure, a payload without elements, or
\* an element list of at most n elements
OverpassQuery(n) ==
    /\ pc = "overpass"
    /\ \/ \E o \in OverpassPlainOutcomes : OverpassAnswer(o)
       \/ \E k \in 0..n : \E shapes \in [1..k -> ElementShapes] :
            OverpassAnswer(OverpassJson(Some(ElementsOf(shapes))))

\* the lines written for one hotel, lines 233-243
HotelLines(h) ==
    <<Write("hotels", <<"name", h.name>>),
      Write("hotels", <<"address", h.street, h.city, h.country>>)>>
    \o (IF h.stars # "N/A" THEN <<Write("hotels", <<"rating", h.stars>>)>> ELSE <<>>)
    \o (IF h.phone # "Phone not available"
        THEN <<Write("hotels", <<"phone", h.phone>>)>> ELSE <<>>)
    \o (IF h.website # "Website not available"
        THEN <<Write("hotels", <<"website", h.website>>)>> ELSE <<>>)
    \o <<Write("hotels", <<"map", h.lat, h.lon>>), Write("hotels", <<"---">>)>>

RenderHotels ==
    /\ pc = "render_hotels"
    /\ screen' = IF hotels # <<>>
                 THEN screen \o Flatten([i \in 1..Len(hotels) |-> HotelLines(hotels[i])])
                 ELSE Append(screen, Warning("hotels"))
    /\ pc' = "flight_subheader"
    /\ UNCHANGED <<city, origin_city, calls, raised, weather_data, trip_plan,
                   geocode_data, lat, lon, overpass_data, hotels, origin_code,
                   dest_code, flights_data, flights>>

----------------------------------------------------------------------------
(* search_flights and the flight steps of main *)

FlightLimit == 3

FlightNumbers == <<"JL041", "JL042", "JL043", "JL044", "JL045", "JL046", "JL047",
                   "JL048">>
\* the flight number of the i-th entry of a response
FlightNumberAt(i) == FlightNumbers[((i - 1) % Len(FlightNumbers)) + 1]

\* a sub-object of an entry: key absent, null, or an object whose leaf (name,
\* number, scheduled) is absent (None) or present
Sub(kind, leaf) == [kind |-> kind, leaf |-> leaf]

\* how the four sub-objects of an entry can look: "value", "no_leaf" (object
\* without the leaf), "absent" (no such key), "null"
FlightShapes ==
    {[airline |-> "value", flight |-> "value", departure |-> "value", arrival |-> "value"],
     [airline |-> "absent", flight |-> "value", departure |-> "value", arrival |-> "value"],
     [airline |-> "no_leaf", flight |-> "value", departure |-> "value", arrival |-> "value"],
     [airline |-> "value", flight |-> "no_leaf", departure |-> "value", arrival |-> "value"],
     [airline |-> "value", flight |-> "value", departure |-> "absent", arrival |-> "value"],
     [airline |-> "value", flight |-> "value", departure |-> "no_leaf", arrival |-> "value"],
     [airline |-> "value", flight |-> "value", departure |-> "value", arrival |-> "absent"],
     [airline |-> "value", flight |-> "absent", departure |-> "value", arrival |-> "no_leaf"],
     [airline |-> "absent", flight |-> "absent", departure |-> "absent", arrival |-> "absent"],
     [airline |-> "value", flight |-> "value", departure |-> "null", arrival |-> "value"]}

SubOf(state, value) ==
    IF state = "value" THEN Sub("dict", Some(value))
    ELSE IF state = "no_leaf" THEN Sub("dict", None)
    ELSE Sub(state, None)

FlightEntry(shape, i) ==
    [airline |-> SubOf(shape.airline, "Japan Airlines"),
     flight |-> SubOf(shape.flight, FlightNumberAt(i)),
     departure |-> SubOf(shape.departure, "2024-04-01T10:00"),
     arrival |-> SubOf(shape.arrival, "2024-04-02T06:00")]

\* the data list whose i-th entry has the i-th of shapes
EntriesOf(shapes) == [i \in 1..Len(shapes) |-> FlightEntry(shapes[i], i)]

FlightsJson(data) == [kind |-> "json", shape |-> "dict", data |-> data]
FlightsFailure(k) == [kind |-> k, shape |-> "dict", data |-> None]
FlightsList == [kind |-> "json", shape |-> "list", data |-> None]

\* the answers without a data list; data |-> None is a JSON object without
\* the key "data"
FlightsPlainOutcomes ==
    {FlightsFailure(k) : k \in ErrorKinds} \cup {FlightsList, FlightsJson(None)}

\* plausible slips: one default for all four fields; no slice of the data list
AirlineDefaultShared == "Unknown"
DataUnsliced(data) == data

AirlineDefault == "Unknown Airline"
FieldDefault == "Unknown"

\* flight.get(key, {}).get(leaf, default), for a sub-object that is not null
SubGet(sub, default) ==
    IF sub.kind = "absent" \/ sub.leaf = None THEN default ELSE sub.leaf[1]

\* flight.get(key, {}) is None: .get on it raises
EntryRaises(e) ==
    \/ e.airline.kind = "null" \/ e.flight.kind = "null"
    \/ e.departure.kind = "null" \/ e.arrival.kind = "null"

\* the dict appended at lines 147-152
FlightOf(e) ==
    [airline |-> SubGet(e.airline, AirlineDefault),
     flight_number |-> SubGet(e.flight, FieldDefault),
     departure |-> SubGet(e.departure, FieldDefault),
     arrival |-> SubGet(e.arrival, FieldDefault)]

\* data.get("data", [])[:3]
DataSlice(data) == Prefix(data, FlightLimit)

\* the try block of search_flights on the answer o: [flights, error]
FlightsFrom(o) ==
    IF IsError(o) \/ o.shape # "dict" THEN [flights |-> <<>>, error |-> TRUE]
    ELSE IF o.data = None THEN [flights |-> <<>>, error |-> FALSE]
    ELSE IF \E i \in 1..Len(DataSlice(o.data[1])) : EntryRaises(o.data[1][i])
         THEN [flights |-> <<>>, error |-> TRUE]
    ELSE [flights |-> [i \in 1..Len(DataSlice(o.data[1])) |-> FlightOf(o.data[1][i])],
          error |-> FALSE]

FlightSubheader ==
    /\ pc = "flight_subheader"
    /\ screen' = Append(screen, Subheader("flights"))
    /\ pc' = "airport"
    /\ UNCHANGED <<city, origin_city, calls, raised, weather_data, trip_plan,
                   geocode_data, lat, lon, overpass_data, hotels, origin_code,
                   dest_code, flights_data, flights>>

\* a plausible slip: the flights service asked again after a failure
PcAfterFlightsRetry(failed) == IF failed THEN "flights" ELSE "render_flights"

\* search_flights returns to main whether or not the call failed
PcAfterFlights(failed) == "render_flights"

\* lines 249-250
ResolveAirportCodes ==
    /\ pc = "airport"
    /\ origin_code' = Some(get_airport_code(origin_city))
    /\ dest_code' = Some(get_airport_code(city))
    /\ pc' = "flights"
    /\ UNCHANGED <<city, origin_city, calls, screen, raised, weather_data,
                   trip_plan, geocode_data, lat, lon, overpass_data, hotels,
                   flights_data, flights>>

\* search_flights on the answer o of the flights service
FlightsAnswer(o) ==
    LET r == FlightsFrom(o) IN
    /\ flights_data' = o
    /\ calls' = Append(calls, Call("flights", <<origin_code, dest_code>>, ~r.error))
    /\ screen' = IF r.error THEN Append(screen, ErrorNotice("flights")) ELSE screen
    /\ flights' = r.flights
    /\ pc' = PcAfterFlights(r.error)
    /\ UNCHANGED <<city, origin_city, raised, weather_data, trip_plan,
                   geocode_data, lat, lon, overpass_data, hotels, origin_code,
                   dest_code>>

\* the flights service answers with a failure, a payload without data, or a
\* data list of at most n entries
SearchFlights(n) ==
    /\ pc = "flights"
    /\ \/ \E o \in FlightsPlainOutcomes : FlightsAnswer(o)
       \/ \E k \in 0..n : \E shapes \in [1..k -> FlightShapes] :
            FlightsAnswer(FlightsJson(Some(EntriesOf(shapes))))

\* the lines written for one flight, lines 255-257
FlightLines(f) ==
    <<Write("flights", <<"flight", f.airline, f.flight_number>>),
      Write("flights", <<"departure", f.departure>>),
      Write("flights", <<"arrival", f.arrival>>)>>

RenderFlights ==
    /\ pc = "render_flights"
    /\ screen' = IF flights # <<>>
                 THEN screen \o Flatten([i \in 1..Len(flights) |-> FlightLines(flights[i])])
                 ELSE Append(screen, Warning("flights"))
    /\ pc' = "done"
    /\ UNCHANGED <<city, origin_city, calls, raised, weather_data, trip_plan,
                   geocode_data, lat, lon, overpass_data, hotels, origin_code,
                   dest_code, flights_data, flights>>

----------------------------------------------------------------------------
(* Specifications *)

\* the locals of a run before any statement of it has executed
Fresh ==
    /\ calls = <<>>
    /\ screen = <<>>
    /\ raised = None
    /\ weather_data = EmptyDict
    /\ trip_plan = None
    /\ geocode_data = [kind |-> "not_asked", data |-> <<>>]
    /\ lat = None
    /\ lon = None
    /\ overpass_data = [kind |-> "not_asked", shape |-> "dict", elements |-> None]
    /\ hotels = <<>>
    /\ origin_code = None
    /\ dest_code = None
    /\ flights_data = [kind |-> "not_asked", shape |-> "dict", data |-> None]
    /\ flights = <<>>

\* One request: the button pressed with the two text inputs filled in.
Init ==
    /\ pc = "weather"
    /\ city \in {Tokyo, Lagos}
    /\ origin_city \in {London}
    /\ Fresh

Next ==
    \/ GetWeatherData
    \/ RenderWeather
    \/ GenerateTripPlan
    \/ HotelSubheader
    \/ GetCityCoordinates
    \/ OverpassQuery(MaxRequestItems)
    \/ RenderHotels
    \/ FlightSubheader
    \/ ResolveAirportCodes
    \/ SearchFlights(MaxRequestItems)
    \/ RenderFlights

Spec == Init /\ [][Next]_vars

\* search_hotels(city) on every answer of the geocoder and of the spatial query
InitHotels ==
    /\ pc = "geocode"
    /\ city \in {Tokyo, Lagos}
    /\ origin_city = London
    /\ Fresh

NextHotels ==
    \/ GetCityCoordinates
    \/ OverpassQuery(MaxElements)

SpecHotels == InitHotels /\ [][NextHotels]_vars

\* search_flights(get_airport_code(origin_city), get_airport_code(city)) on
\* every answer of the flights service
InitFlights ==
    /\ pc = "airport"
    /\ city \in {Tokyo, Lagos}
    /\ origin_city = London
    /\ Fresh

NextFlights ==
    \/ ResolveAirportCodes
    \/ SearchFlights(MaxFlights)

SpecFlights == InitFlights /\ [][NextFlights]_vars

\* get_airport_code on city names
NameAlphabet == {"o", "K", " ", SharpS}

NamesUpTo(n) == UNION {[1..k -> NameAlphabet] : k \in 0..n}

NamedCities ==
    {Tokyo, London, Lagos,
     <<"t","o","k","y","o">>, <<"T","O","K","Y","O">>, <<"t","O","k","Y","o">>,
     <<"K","y","o","t","o">>, <<"O","S","A","K","A">>, <<"P","a","r","i","s">>,
     <<"N","e","w"," ","Y","o","r","k">>, <<"N","e","w","Y","o","r","k">>,
     <<"T","o","k","y","o"," ">>, <<"R","i","o">>, <<"L","A">>,
     <<"S","t","r","a", SharpS, "e">>, <<"a", SharpS, "l","a","r">>,
     <<"S","U+00E3","o">>, <<"U+00E9","v","r","y">>, <<"U+00C9","v","r","y">>,
     <<"t","o","U+212A","y","o">>, <<"U+0130","z","m","i","r">>,
     <<"U+0149">>, <<"U+01F0","U+01F0">>, <<"U+0131">>}

CityNames == NamedCities \cup NamesUpTo(MaxNameLen)

InitAirport ==
    /\ pc = "airport"
    /\ city \in CityNames
    /\ origin_city \in {London, <<"l","o","n","d","o","n">>}
    /\ Fresh

NextAirport == ResolveAirportCodes

SpecAirport == InitAirport /\ [][NextAirport]_vars

----------------------------------------------------------------------------
(* Vocabulary of the properties *)

\* the element list of the spatial query's answer ([] when it has none)
ResponseElements ==
    IF overpass_data.elements = None THEN <<>> ELSE overpass_data.elements[1]

\* the data list of the flights service's answer ([] when it has none)
ResponseData == IF flights_data.data = None THEN <<>> ELSE flights_data.data[1]

IsNode(e) == e.type = "node"

\* search_hotels has returned / search_flights has returned
HotelsReturned == pc = "render_hotels"
FlightsReturned == pc = "render_flights"

\* the spatial query answered with a JSON object holding an element list in
\* which every "tags" that is present is an object
WellFormedElements ==
    /\ overpass_data.kind = "json" /\ overpass_data.shape = "dict"
    /\ overpass_data.elements # None
    /\ \A i \in 1..Len(ResponseElements) : ResponseElements[i].tags.kind # "null"

\* the flights service answered with a JSON object holding a data list in
\* which no sub-object of the first three entries is null
WellFormedData ==
    /\ flights_data.kind = "json" /\ flights_data.shape = "dict"
    /\ flights_data.data # None
    /\ \A i \in 1..Min(3, Len(ResponseData)) :
        \A k \in {"airline", "flight", "departure", "arrival"} :
            ResponseData[i][k].kind # "null"

\* record h carries the position of element e
BuiltFrom(h, e) == h.lat = e.lat /\ h.lon = e.lon

\* the upstream leaf of a sub-object when present, else the given default
Expected(sub, default) ==
    IF sub.kind = "dict" /\ sub.leaf # None THEN sub.leaf[1] ELSE default

----------------------------------------------------------------------------
(* C1 *)

\* the geocoder gave no coordinates: the call failed, the result list was
\* empty, or the pair returned is the null pair
GeocoderYieldsNothing ==
    /\ Called("geocode")
    /\ \/ geocode_data.kind \in ErrorKinds
       \/ geocode_data.data = <<>>
       \/ lat = None \/ lon = None

\* C1: whenever the geocoder yields no coordinates (empty result list or failed
\* call), search_hotels has returned the empty list and the spatial query has
\* not been issued.
C1_NoCoordinatesNoQuery ==
    GeocoderYieldsNothing =>
        /\ HotelsReturned
        /\ hotels = <<>>
        /\ ~Called("overpass")

C1_Witness ==
    /\ HotelsReturned
    /\ geocode_data = GeoJson(<<>>)
    /\ Called("geocode") /\ ~Called("overpass")
    /\ hotels = <<>>

----------------------------------------------------------------------------
(* C2 *)

\* C2: whatever the spatial query answers, search_hotels returns at most 3
\* records and each of them is built from an element of type node, never from
\* a way or a relation.
C2_AtMostThreeNodeHotels ==
    HotelsReturned =>
        /\ Len(hotels) <= 3
        /\ \A i \in 1..Len(hotels) :
            \E j \in 1..Len(ResponseElements) :
                /\ ResponseElements[j].type = "node"
                /\ BuiltFrom(hotels[i], ResponseElements[j])

\* five nodes and a way answered, three records returned
C2_Witness ==
    /\ HotelsReturned
    /\ Len(SelectSeq(ResponseElements, IsNode)) >= 5
    /\ \E j \in 1..Len(ResponseElements) : ResponseElements[j].type = "way"
    /\ Len(hotels) = 3

----------------------------------------------------------------------------
(* C3 *)

\* C3: whatever the length of the data list, search_flights returns at most 3
\* records, the i-th record is built from the i-th entry of the data list, and
\* when the call did not fail the records are the first min(3, n) entries.
C3_AtMostThreeFlightsInOrder ==
    FlightsReturned =>
        /\ Len(flights) <= 3
        /\ Len(flights) <= Len(ResponseData)
        /\ \A i \in 1..Len(flights) :
            /\ flights[i].airline = Expected(ResponseData[i].airline, "Unknown Airline")
            /\ flights[i].flight_number = Expected(ResponseData[i].flight, "Unknown")
            /\ flights[i].departure = Expected(ResponseData[i].departure, "Unknown")
            /\ flights[i].arrival = Expected(ResponseData[i].arrival, "Unknown")
        /\ WellFormedData => Len(flights) = Min(3, Len(ResponseData))

\* four entries answered, each with its flight number, three returned
C3_Witness ==
    /\ FlightsReturned
    /\ Len(ResponseData) = 4
    /\ \A i \in 1..4 : ResponseData[i].flight = Sub("dict", Some(FlightNumberAt(i)))
    /\ Len(flights) = 3
    /\ flights[3].flight_number = FlightNumberAt(3)

----------------------------------------------------------------------------
(* C4 *)

HND == <<"H","N","D">>
LHR == <<"L","H","R">>

\* the airport codes have been resolved
CodesResolved == origin_code # None /\ dest_code # None

\* the name has a character whose upper-case form is more than one character
HasExpandingChar(name) == \E i \in 1..Len(name) : Len(UpperChar(name[i])) > 1

\* what the claim says of the code returned for one name, but for its last
\* clause: the table's code for a name whose lower-cased form is a key,
\* whatever its letter case, and otherwise the first three characters of the
\* name upper-cased
CodeAsClaimed(name, code) ==
    /\ Lower(name) \in DOMAIN airport_codes => code = airport_codes[Lower(name)]
    /\ Lower(name) \notin DOMAIN airport_codes => code = Upper(Prefix(name, 3))
    /\ Lower(name) = <<"t","o","k","y","o">> => code = HND
    /\ name = London => code = LHR
    /\ name = Lagos => code = <<"L","A","G">>

\* C4 as stated: the lookup is a function of the name alone, case-insensitive
\* on the table's keys, falling back to the first three characters upper-cased,
\* so that a name shorter than three characters gives a code shorter than three
\* characters.
C4_Original ==
    CodesResolved =>
        /\ CodeAsClaimed(city, dest_code[1])
        /\ CodeAsClaimed(origin_city, origin_code[1])
        /\ calls = <<>> /\ screen = <<>>
        /\ Len(city) < 3 => Len(dest_code[1]) < 3

\* C4 amended: as stated, but a name shorter than three characters gives a code
\* shorter than three characters only when none of its characters has an
\* upper-case form of more than one character; the sharp s becomes "SS", so a
\* name of two of them gives a code of four characters.
C4_AirportCode ==
    CodesResolved =>
        /\ CodeAsClaimed(city, dest_code[1])
        /\ CodeAsClaimed(origin_city, origin_code[1])
        /\ calls = <<>> /\ screen = <<>>
        /\ (Len(city) < 3 /\ ~HasExpandingChar(city)) => Len(dest_code[1]) < 3
        /\ city = <<SharpS, SharpS>> => dest_code[1] = <<"S","S","S","S">>

\* a table key typed in capitals resolved through the table
C4_Witness ==
    /\ CodesResolved
    /\ city = <<"T","O","K","Y","O">>
    /\ dest_code = Some(HND)
    /\ origin_city = London
    /\ origin_code = Some(LHR)

----------------------------------------------------------------------------
(* C9 *)

\* C9 as stated, and only for well-formed answers: the number of records is
\* min(3, number of node elements of the response) and the i-th record is built
\* from the i-th node element of the response, whatever precedes it.
C9_Original ==
    (HotelsReturned /\ WellFormedElements) =>
        LET nodes == SelectSeq(ResponseElements, IsNode) IN
        /\ Len(hotels) = Min(3, Len(nodes))
        /\ \A i \in 1..Len(hotels) : BuiltFrom(hotels[i], nodes[i])

\* C9 amended: the candidates are the first five elements of the response,
\* of any type; the number of records is min(3, number of node elements among
\* those five) and the i-th record is built from the i-th node element among
\* them, for every answer whose present "tags" are objects.
C9_FirstFiveElements ==
    (HotelsReturned /\ WellFormedElements) =>
        LET nodes == SelectSeq(Prefix(ResponseElements, 5), IsNode) IN
        /\ Len(hotels) = Min(3, Len(nodes))
        /\ \A i \in 1..Len(hotels) :
            /\ BuiltFrom(hotels[i], nodes[i])
            /\ hotels[i].name = IF "name" \in nodes[i].tags.keys
                                THEN "Grand Hotel" ELSE "Unnamed Hotel"
            /\ hotels[i].city = IF "addr:city" \in nodes[i].tags.keys
                                THEN Shibuya ELSE city

\* a way, three more elements of which two are nodes, a relation, then a node
\* in sixth place: the sixth element is no candidate
C9_Witness ==
    /\ HotelsReturned /\ WellFormedElements
    /\ Len(ResponseElements) = 6
    /\ ResponseElements[1].type = "way"
    /\ ResponseElements[5].type = "relation"
    /\ ResponseElements[6].type = "node"
    /\ Len(SelectSeq(ResponseElements, IsNode)) = 3
    /\ Len(hotels) = 2
    /\ hotels[1].lat # Some(1)

----------------------------------------------------------------------------
(* C10 *)

\* the record of entry e when every absent field defaults to the same string
RecordWithDefaults(e, airlineDefault, otherDefault) ==
    [airline |-> Expected(e.airline, airlineDefault),
     flight_number |-> Expected(e.flight, otherDefault),
     departure |-> Expected(e.departure, otherDefault),
     arrival |-> Expected(e.arrival, otherDefault)]

\* C10 as stated, and only for well-formed answers: each of the first three
\* entries gives one record whose four fields are the upstream value when
\* present and "Unknown" when absent, and no entry is dropped.
C10_Original ==
    (FlightsReturned /\ WellFormedData) =>
        /\ Len(flights) = Min(3, Len(ResponseData))
        /\ \A i \in 1..Len(flights) :
            flights[i] = RecordWithDefaults(ResponseData[i], "Unknown", "Unknown")

\* C10 amended: as stated, but an absent airline name defaults to "Unknown
\* Airline"; the other three fields default to "Unknown".
C10_IndependentDefaults ==
    (FlightsReturned /\ WellFormedData) =>
        /\ Len(flights) = Min(3, Len(ResponseData))
        /\ \A i \in 1..Len(flights) :
            flights[i] = RecordWithDefaults(ResponseData[i], "Unknown Airline",
                                            "Unknown")

\* an entry without its airline between two complete entries
C10_Witness ==
    /\ FlightsReturned /\ WellFormedData
    /\ Len(ResponseData) >= 3
    /\ ResponseData[2].airline.kind = "absent"
    /\ ResponseData[2].flight.leaf # None
    /\ ResponseData[3].arrival.leaf = None
    /\ Len(flights) = 3
    /\ flights[2].airline = "Unknown Airline"
    /\ flights[2].flight_number = FlightNumberAt(2)
    /\ flights[3].arrival = "Unknown"
    /\ flights[1].airline = "Japan Airlines"

----------------------------------------------------------------------------
(* C5, C6 *)

\* the step of main whose exception ended the request, if any
RaisedAt(step) == pc = "raised" /\ raised = Some(step)

\* the narrative call was made and failed / was made and returned
NarrativeFailed == \E i \in 1..Len(calls) : calls[i].svc = "narrative" /\ ~calls[i].ok
NarrativeSucceeded == \E i \in 1..Len(calls) : calls[i].svc = "narrative" /\ calls[i].ok

\* the weather section is on the screen
WeatherSectionShown == Shown("subheader", "weather")

\* a section shows its data or its own notice
SectionRendered(section) ==
    /\ Shown("subheader", section)
    /\ Shown("write", section) \/ Shown("warning", section)

\* the weather answers the claims speak of: a failed call, or a JSON object
\* whose "main" is absent or an object and whose "weather" is absent or a list,
\* the empty list included
WeatherAnswerAsClaimed ==
    /\ weather_data.shape = "dict"
    /\ weather_data.main \in {"absent", "no_temp", "temp"}
    /\ weather_data.weather \in {"absent", "empty_list", "no_desc", "desc"}

\* C5: for each of these answers of the weather call the weather step of main
\* does not raise: once the step is over the request is at the narrative step
\* or past it, with the weather data rendered or nothing rendered for it.
C5_WeatherStepNeverRaises ==
    WeatherAnswerAsClaimed =>
        /\ ~RaisedAt("weather")
        /\ pc \notin {"weather", "render_weather"} =>
            (Shown("write", "weather") \/ ~WeatherSectionShown)

\* C6: when narrative generation succeeds the request runs to its end whatever
\* the four soft fetchers answer: no exception leaves main, and at the end the
\* hotel section and the flight section are both rendered, each with its data
\* or its notice.
C6_RunsToEndWhenNarrativeSucceeds ==
    WeatherAnswerAsClaimed =>
        /\ pc = "raised" => NarrativeFailed
        /\ pc = "done" => (NarrativeSucceeded /\ SectionRendered("hotels")
                           /\ SectionRendered("flights"))
        /\ (pc = "done" /\ hotels = <<>>) => Shown("warning", "hotels")
        /\ (pc = "done" /\ flights = <<>>) => Shown("warning", "flights")

----------------------------------------------------------------------------
(* C7 *)

\* what C7 says of a failed narrative call, but for the weather section: the
\* exception left main at that step, no later call was made and no later
\* section was written, and the weather call had been made
AbortedAtNarrative ==
    /\ RaisedAt("narrative")
    /\ trip_plan = None
    /\ ~Called("geocode") /\ ~Called("overpass") /\ ~Called("flights")
    /\ ~Shown("subheader", "plan")
    /\ ~Shown("subheader", "hotels") /\ ~Shown("warning", "hotels")
    /\ ~Shown("subheader", "flights") /\ ~Shown("warning", "flights")
    /\ Len(calls) = 2 /\ calls[1].svc = "weather" /\ calls[2].svc = "narrative"

\* C7 as stated: a failed narrative call aborts the request with no geocoding,
\* spatial or flights call and no hotel or flight section, the weather call
\* made and the weather section rendered.
C7_Original ==
    NarrativeFailed => (AbortedAtNarrative /\ WeatherSectionShown)

\* C7 amended: as stated, but the weather section has been rendered only when
\* the weather call returned a non-empty result; after a failed or empty
\* weather answer nothing but the failure's error notice is on the screen.
C7_NarrativeFailureAborts ==
    NarrativeFailed =>
        /\ AbortedAtNarrative
        /\ WeatherSectionShown <=>
            (calls[1].ok /\ weather_data # EmptyDict /\ weather_data # NullPayload)
        /\ WeatherSectionShown => Shown("write", "weather")
        /\ ~calls[1].ok => (Shown("error", "weather") /\ weather_data = EmptyDict)

\* the narrative call failed after the weather section was rendered
C7_Witness ==
    /\ NarrativeFailed
    /\ RaisedAt("narrative")
    /\ weather_data = WeatherDict("temp", "desc", TRUE)
    /\ Shown("write", "weather")

----------------------------------------------------------------------------
(* C8 *)

\* the fixed order of the external calls
CallOrder == <<"weather", "narrative", "geocode", "overpass", "flights">>
Rank(svc) == CHOOSE r \in 1..Len(CallOrder) : CallOrder[r] = svc

\* C8: the external calls made in one request are a subsequence of weather,
\* narrative, geocoding, spatial query, flights, each made at most once and
\* each over (returned or failed) before the next is made, and the flights call
\* is made with the airport codes resolved before it.
C8_CallsInFixedOrder ==
    /\ \A i \in 1..Len(calls) :
        /\ calls[i].svc \in {CallOrder[r] : r \in 1..Len(CallOrder)}
        /\ calls[i].ok \in BOOLEAN
    /\ \A i, j \in 1..Len(calls) :
        i < j => Rank(calls[i].svc) < Rank(calls[j].svc)
    /\ \A i \in 1..Len(calls) :
        calls[i].svc = "flights" =>
            /\ CodesResolved
            /\ calls[i].args = <<origin_code, dest_code>>
            /\ origin_code = Some(get_airport_code(origin_city))
            /\ dest_code = Some(get_airport_code(city))
    /\ pc = "flights" => CodesResolved

\* a request that made all five calls, London to Tokyo
C8_Witness ==
    /\ pc = "done"
    /\ Len(calls) = 5
    /\ city = Tokyo
    /\ calls[5].args = <<Some(LHR), Some(HND)>>
    /\ [i \in 1..5 |-> calls[i].svc] = CallOrder

====
